---- MODULE Spec2Model ----
(***************************************************************************)
(* yfmos: Somfy RTS frames over the Sonoff RF bridge raw format.          *)
(* A model of src/yfmos.py: the frame codec (payload, checksum,           *)
(* obfuscation), the Manchester encoder and decoder, the B1 capture       *)
(* parser with its sync state machine, and the gen/run commands with      *)
(* the profile store they read and write.                                 *)
(***************************************************************************)
EXTENDS Integers, Sequences, FiniteSets, TLC

VARIABLES
    \* frame codec exercise: __obfuscate then __deobfuscate on one frame
    cin, cob, cde, cstage,
    \* gen/run: the profile store (~/.yfmosrc) and the running invocations
    store, inv, log, rc0, serial,
    \* Manchester exercise: ManchesterEncode output fed to ManchesterDecode
    mbits, mlong, mshort, menc, mpos, mdec, mrejected, mstage,
    \* init: __parge_B1 on one capture
    pbuckets, pulse, pstate, pdec, ppos, plen, plast, pstage, presult,
    everDone, doneBits,
    \* the data string when the capture is given whole, what the walk has
    \* seen: the pulses since Payload was entered, whether addLongPulse has
    \* returned False, the length of the run of HWsync pulses from ST_UNKNOWN
    pdata, pframe, pdesync, hwRun

codecVars == <<cin, cob, cde, cstage>>
genVars == <<store, inv, log, rc0, serial>>
manVars == <<mbits, mlong, mshort, menc, mpos, mdec, mrejected, mstage>>
parseVars == <<pbuckets, pulse, pstate, pdec, ppos, plen, plast, pstage, presult,
               everDone, doneBits, pdata, pframe, pdesync, hwRun>>
\* the variables each part of the model leaves alone
notCodec == <<genVars, manVars, parseVars>>
notGen == <<codecVars, manVars, parseVars>>
notMan == <<codecVars, genVars, parseVars>>
notParse == <<codecVars, genVars, manVars>>
vars == <<codecVars, genVars, manVars, parseVars>>

(***************************************************************************)
(* Bit operations on naturals, as Python's ^ and | on ints.               *)
(***************************************************************************)
RECURSIVE Xor(_, _)
Xor(a, b) ==
    IF a = 0 THEN b
    ELSE IF b = 0 THEN a
    ELSE (((a % 2) + (b % 2)) % 2) + 2 * Xor(a \div 2, b \div 2)

RECURSIVE BitOr(_, _)
BitOr(a, b) ==
    IF a = 0 THEN b
    ELSE IF b = 0 THEN a
    ELSE (IF a % 2 = 1 \/ b % 2 = 1 THEN 1 ELSE 0) + 2 * BitOr(a \div 2, b \div 2)

\* len(data) of a frame held as a dict with keys 0..n-1
FrameLength(data) == Cardinality(DOMAIN data)

(***************************************************************************)
(* Commands (enum) and the frame construction.                            *)
(***************************************************************************)
Commands == [MY |-> 16, UP |-> 32, DOWN |-> 64, PROG |-> 128]

CommandNames == DOMAIN Commands

Gen_payload(cmd, code, device) ==
    [i \in 0..6 |->
        CASE i = 0 -> 161
          [] i = 1 -> (Commands[cmd] \div 16) * 16
          [] i = 2 -> (code \div 256) % 256
          [] i = 3 -> code % 256
          [] i = 4 -> (device \div 65536) % 256
          [] i = 5 -> (device \div 256) % 256
          [] i = 6 -> device % 256]

\* the accumulation without the term data[i] >> 4
RECURSIVE ChecksumLoop_LowNibblesOnly(_, _, _)
ChecksumLoop_LowNibblesOnly(data, i, acc) ==
    IF i >= FrameLength(data) THEN acc
    ELSE ChecksumLoop_LowNibblesOnly(data, i + 1, Xor(acc, data[i]))

\* the accumulation loop of __calc_checksum, bytes 0..i-1 folded into acc
RECURSIVE ChecksumLoop(_, _, _)
ChecksumLoop(data, i, acc) ==
    IF i >= FrameLength(data) THEN acc
    ELSE ChecksumLoop(data, i + 1, Xor(Xor(acc, data[i]), data[i] \div 16))

Calc_checksum_KeepsHighNibble(data) ==
    [data EXCEPT ![1] = BitOr(data[1], ChecksumLoop(data, 0, 0) % 256)]

Calc_checksum(data) ==
    [data EXCEPT ![1] = BitOr(data[1], ChecksumLoop(data, 0, 0) % 16)]

RECURSIVE ObfuscateLoop(_, _)
ObfuscateLoop(data, i) ==
    IF i >= FrameLength(data) THEN data
    ELSE ObfuscateLoop([data EXCEPT ![i] = Xor(data[i], data[i - 1])], i + 1)

\* for i in range(1, len(data))
Obfuscate(data) == ObfuscateLoop(data, 1)

RECURSIVE DeobfuscateLoop(_, _)
DeobfuscateLoop(data, i) ==
    IF i <= 1 THEN data
    ELSE DeobfuscateLoop([data EXCEPT ![i] = Xor(data[i], data[i - 1])], i - 1)

\* for i in range(len(data)-1, 1, -1): the loop stops before index 1
Deobfuscate(data) == DeobfuscateLoop(data, FrameLength(data) - 1)

(***************************************************************************)
(* Frame codec exercise: any 7-byte frame through __obfuscate and then    *)
(* __deobfuscate.                                                         *)
(***************************************************************************)
ByteSamples == {0, 1, 161, 255}

ZeroFrame == [i \in 0..6 |-> 0]

CodecIdle ==
    /\ cin = ZeroFrame
    /\ cob = ZeroFrame
    /\ cde = ZeroFrame
    /\ cstage = "off"

CodecInit ==
    /\ cin \in [0..6 -> ByteSamples]
    /\ cob = ZeroFrame
    /\ cde = ZeroFrame
    /\ cstage = "plain"

DoObfuscate ==
    /\ cstage = "plain"
    /\ cob' = Obfuscate(cin)
    /\ cstage' = "obfuscated"
    /\ UNCHANGED <<cin, cde, notCodec>>

DoDeobfuscate ==
    /\ cstage = "obfuscated"
    /\ cde' = Deobfuscate(cob)
    /\ cstage' = "deobfuscated"
    /\ UNCHANGED <<cin, cob, notCodec>>

(***************************************************************************)
(* Strings of the B0 command are sequences of hex digits (0..15); a text  *)
(* with spaces is a sequence of such fields.                              *)
(***************************************************************************)
RECURSIVE HexDigits(_)
HexDigits(n) ==
    IF n < 16 THEN <<n>> ELSE Append(HexDigits(n \div 16), n % 16)

RECURSIVE ZeroPad(_, _)
ZeroPad(s, width) ==
    IF Len(s) >= width THEN s ELSE ZeroPad(<<0>> \o s, width)

\* '%02X' % n and '%04X' % n: at least width digits, more when n needs them
HexField(n, width) == ZeroPad(HexDigits(n), width)

\* token * n
RECURSIVE Times(_, _)
Times(token, n) ==
    IF n <= 0 THEN <<>> ELSE token \o Times(token, n - 1)

\* text.replace(' ', '')
RECURSIVE NoSpaces(_)
NoSpaces(fields) ==
    IF fields = <<>> THEN <<>> ELSE Head(fields) \o NoSpaces(Tail(fields))

ByteBits(b) == [k \in 1..8 |-> (b \div (2 ^ (8 - k))) % 2]

RECURSIVE StripLeadingZeros(_)
StripLeadingZeros(bits) ==
    IF Len(bits) > 1 /\ Head(bits) = 0 THEN StripLeadingZeros(Tail(bits)) ELSE bits

\* bin(out)[2:] of the 56-bit number made of the seven bytes
To_bitvec(data) ==
    StripLeadingZeros(ByteBits(data[0]) \o ByteBits(data[1]) \o ByteBits(data[2])
        \o ByteBits(data[3]) \o ByteBits(data[4]) \o ByteBits(data[5])
        \o ByteBits(data[6]))

(***************************************************************************)
(* ManchesterEncode                                                       *)
(***************************************************************************)
\* a pass appending one short pulse for two equal bits
AddDataPulse_OneShort(bitvec, i, longPulse, shortPulse) ==
    IF bitvec[i + 1] = bitvec[i] THEN shortPulse ELSE longPulse

\* what one pass of the loop of addData appends, for index i (1 <= i < len):
\* bitvec[i] against prev = bitvec[i-1] (the sequence is 1-based here)
AddDataPulse(bitvec, i, longPulse, shortPulse) ==
    IF bitvec[i + 1] = bitvec[i] THEN shortPulse \o shortPulse ELSE longPulse

\* the passes lo..hi of the loop, in order (split in halves to keep the
\* evaluation shallow)
RECURSIVE AddDataLoop(_, _, _, _, _)
AddDataLoop(bitvec, lo, hi, longPulse, shortPulse) ==
    IF lo > hi THEN <<>>
    ELSE IF lo = hi THEN AddDataPulse(bitvec, lo, longPulse, shortPulse)
    ELSE LET mid == (lo + hi) \div 2
         IN AddDataLoop(bitvec, lo, mid, longPulse, shortPulse)
                \o AddDataLoop(bitvec, mid + 1, hi, longPulse, shortPulse)

\* for i in range(1, len(bitvec))
AddData(bitvec, longPulse, shortPulse) ==
    AddDataLoop(bitvec, 1, Len(bitvec) - 1, longPulse, shortPulse)

\* return self.encoded + '3'
Get_encoded(encoded) == encoded \o <<3>>

(***************************************************************************)
(* gen / run: __gen_B0 with its callback (__print_B0 or __exec_B0) on the *)
(* profile store.  Each invocation of the program is a process: it reads  *)
(* the store and builds the command, calls the callback, writes the store *)
(* and exits.  serial says whether the invocations are run one after the  *)
(* other or may overlap.                                                  *)
(***************************************************************************)
MaxInvocations == 3

MaxConcurrent == 2

Procs == 1..MaxInvocations

RollingCodeSamples == {0, 5, 65534, 65535}

DeviceSamples == {12648430, 0, 1193046}

RepeatSamples == {1, 2}

StatusSamples == {200, 500}

\* the command lines: gen, run without --host, run with --host
ArgSamples ==
    [kind : {"gen"}, hostArg : {"none"}, cmd : CommandNames, repeat : RepeatSamples]
    \cup [kind : {"run"}, hostArg : {"none", "bridge"}, cmd : CommandNames,
          repeat : RepeatSamples]

DefaultBuckets == <<2530, 4810, 1270, 650, 27360>>

\* the profile written by init: bucket index of each pulse role, as strings
DefaultProfile(section, rollingCode, device, host) ==
    [section |-> section, RollingCode |-> rollingCode, Device |-> device,
     Host |-> host, Buckets |-> DefaultBuckets,
     HWSync |-> <<0>>, SWSync |-> <<1>>, Long |-> <<2>>, Short |-> <<3>>]

NoProfile == DefaultProfile(FALSE, 0, 0, "none")

NoCommand == [strLen |-> 0, tmpStr |-> <<>>]

\* a process before it runs, and (with its pc set) after it has exited
IdleInvocation ==
    [pc |-> "idle", kind |-> "gen", hostArg |-> "none", cmd |-> "MY",
     cfg |-> NoProfile, rollingCode |-> 0, payload |-> ZeroFrame, b0 |-> NoCommand]

Exited(pc) == [IdleInvocation EXCEPT !.pc = pc]

InProgress == {p \in Procs : inv[p].pc \in {"built", "returned"}}

\* rollingCode = config.getint(profile, 'RollingCode') + 1
NextRollingCode_NoIncrement(stored) == stored

NextRollingCode(stored) == stored + 1

\* the rolling code a frame carries in bytes 2 and 3
FrameCode(frame) == frame[2] * 256 + frame[3]

\* tmpStr and strLen of __gen_B0
B0Command(repeat, cfg, dataStr) ==
    LET tmpStr == <<
            <<0, 5>>,
            HexField(repeat, 2),
            HexField(cfg.Buckets[1], 4),
            HexField(cfg.Buckets[2], 4),
            HexField(cfg.Buckets[3], 4),
            HexField(cfg.Buckets[4], 4),
            HexField(cfg.Buckets[5], 4),
            Times(cfg.HWSync, 14) \o cfg.SWSync \o cfg.Long \o dataStr \o <<4>> >>
    IN [strLen |-> Len(NoSpaces(tmpStr)) \div 2, tmpStr |-> tmpStr]

\* lines 321-349: read the profile, build the frame and the command string;
\* a missing section raises NameError and the process exits
GenRead(p, args) ==
    /\ inv[p].pc = "idle"
    /\ IF p = 1 THEN TRUE ELSE inv[p - 1].pc # "idle"
    /\ Cardinality(InProgress) < (IF serial THEN 1 ELSE MaxConcurrent)
    /\ IF ~store.section
       THEN /\ inv' = [inv EXCEPT ![p] = Exited("failed")]
            /\ log' = Append(log, [ok |-> FALSE, code |-> -1,
                        before |-> store.RollingCode, after |-> store.RollingCode,
                        error |-> "ProfileNotFound"])
       ELSE LET rollingCode == NextRollingCode(store.RollingCode)
                payload == Calc_checksum(Gen_payload(args.cmd, rollingCode, store.Device))
                bitvec == To_bitvec(Obfuscate(payload))
                dataStr == Get_encoded(AddData(bitvec, store.Long, store.Short))
            IN /\ inv' = [inv EXCEPT ![p] =
                    [pc |-> "built", kind |-> args.kind, hostArg |-> args.hostArg,
                     cmd |-> args.cmd, cfg |-> store, rollingCode |-> rollingCode,
                     payload |-> payload,
                     b0 |-> B0Command(args.repeat, store, dataStr)]]
               /\ log' = log
    /\ UNCHANGED <<store, rc0, serial, notGen>>

\* __exec_B0 up to the request: the host it resolves, "none" when it raises
\* 'Host not set'
ExecHost(hostArg, cfg) ==
    LET host == IF hostArg # "none" THEN hostArg ELSE cfg.Host
    IN IF hostArg = "none" THEN "none" ELSE host

\* what the callback raises: nothing for __print_B0; for __exec_B0 NameError
\* 'Host not set' (line 370) or RuntimeError on a status other than 200
\* (line 380)
CallbackError(i, status) ==
    IF i.kind = "gen" THEN "none"
    ELSE IF ExecHost(i.hostArg, i.cfg) = "none" THEN "HostNotSet"
    ELSE IF status # 200 THEN "Status"
    ELSE "none"

\* the callback, with a failure also writing the rolling code of the frame
Callback_WritesOnFailure(p, status) ==
    /\ inv[p].pc = "built"
    /\ IF CallbackError(inv[p], status) = "none"
       THEN /\ inv' = [inv EXCEPT ![p].pc = "returned"]
            /\ log' = log
            /\ store' = store
       ELSE /\ inv' = [inv EXCEPT ![p] = Exited("failed")]
            /\ log' = Append(log, [ok |-> FALSE, code |-> FrameCode(inv[p].payload),
                         before |-> inv[p].cfg.RollingCode,
                         after |-> inv[p].rollingCode,
                         error |-> CallbackError(inv[p], status)])
            /\ store' = [inv[p].cfg EXCEPT !.RollingCode = inv[p].rollingCode]
    /\ UNCHANGED <<rc0, serial, notGen>>

\* line 352: callback(b0String, config, profile); __print_B0 prints, __exec_B0
\* resolves the host and performs the request, raising on a status other than
\* 200; an exception ends the process before line 354
Callback(p, status) ==
    /\ inv[p].pc = "built"
    /\ LET ok == CallbackError(inv[p], status) = "none"
       IN IF ok
          THEN /\ inv' = [inv EXCEPT ![p].pc = "returned"]
               /\ log' = log
          ELSE /\ inv' = [inv EXCEPT ![p] = Exited("failed")]
               /\ log' = Append(log, [ok |-> FALSE, code |-> FrameCode(inv[p].payload),
                            before |-> inv[p].cfg.RollingCode,
                            after |-> store.RollingCode,
                            error |-> CallbackError(inv[p], status)])
    /\ UNCHANGED <<store, rc0, serial, notGen>>

\* lines 354-356: config.set(profile, 'RollingCode', ...) and config.write of
\* the configuration as this process read it
GenWrite(p) ==
    /\ inv[p].pc = "returned"
    /\ store' = [inv[p].cfg EXCEPT !.RollingCode = inv[p].rollingCode]
    /\ inv' = [inv EXCEPT ![p] = Exited("done")]
    /\ log' = Append(log, [ok |-> TRUE, code |-> FrameCode(inv[p].payload),
                    before |-> inv[p].cfg.RollingCode, after |-> inv[p].rollingCode,
                    error |-> "none"])
    /\ UNCHANGED <<rc0, serial, notGen>>

GenStep ==
    \/ \E p \in Procs, args \in ArgSamples : GenRead(p, args)
    \/ \E p \in Procs, status \in StatusSamples : Callback(p, status)
    \/ \E p \in Procs : GenWrite(p)

GenIdle ==
    /\ store = NoProfile
    /\ inv = [p \in Procs |-> IdleInvocation]
    /\ log = <<>>
    /\ rc0 = 0
    /\ serial = TRUE

GenInit ==
    /\ rc0 \in RollingCodeSamples
    /\ \E section \in BOOLEAN, device \in DeviceSamples, host \in {"none", "bridge"} :
            store = DefaultProfile(section, rc0, device, host)
    /\ inv = [p \in Procs |-> IdleInvocation]
    /\ log = <<>>

(***************************************************************************)
(* ManchesterDecode: the object's fields as a record; ready is FALSE      *)
(* until init has set them.                                               *)
(***************************************************************************)
NoDecoder ==
    [ready |-> FALSE, nextBit |-> 0, secondPulse |-> FALSE, count |-> 0,
     bitvec |-> <<>>]

\* init with the bits already decoded left in place
Decode_init_KeepsBitvec(self, nextBit, secondPulse) ==
    [self EXCEPT !.ready = TRUE, !.nextBit = nextBit, !.secondPulse = secondPulse,
                 !.count = 0]

\* init(self, nextBit, secondPulse): the four fields of the object assigned
Decode_init(self, nextBit, secondPulse) ==
    [self EXCEPT !.ready = TRUE, !.nextBit = nextBit, !.secondPulse = secondPulse,
                 !.count = 0, !.bitvec = <<>>]

\* ManchesterDecode() followed by init
DecodeInit(nextBit, secondPulse) == Decode_init(NoDecoder, nextBit, secondPulse)

AddShortPulse(d) ==
    IF d.secondPulse
    THEN [d EXCEPT !.bitvec = Append(@, d.nextBit), !.count = @ + 1,
                   !.secondPulse = FALSE]
    ELSE [d EXCEPT !.secondPulse = TRUE]

\* addLongPulse never returning False
AddLongPulseAccepts_Always(d) == TRUE

\* the value addLongPulse returns
AddLongPulseAccepts(d) == d.secondPulse

AddLongPulse_NoFlip(d) ==
    IF ~d.secondPulse THEN d
    ELSE [d EXCEPT !.bitvec = Append(@, d.nextBit), !.count = @ + 1]

\* the decoder after addLongPulse
AddLongPulse(d) ==
    IF ~d.secondPulse THEN d
    ELSE [d EXCEPT !.bitvec = Append(@, d.nextBit), !.nextBit = Xor(@, 1),
                   !.count = @ + 1]

(***************************************************************************)
(* Manchester exercise: a bit sequence through ManchesterEncode, its      *)
(* pulses fed in order to a ManchesterDecode seeded with init(b[0], True) *)
(***************************************************************************)
MaxBits == 6

BitSeqs(n) == [1..n -> {0, 1}]

\* (Long, Short) tokens of a profile: the default indices and captures whose
\* buckets came in another order
TokenSamples == {<<2, 3>>, <<3, 2>>, <<1, 2>>}

ManIdle ==
    /\ mbits = <<>>
    /\ mlong = 2
    /\ mshort = 3
    /\ menc = <<>>
    /\ mpos = 0
    /\ mdec = NoDecoder
    /\ mrejected = FALSE
    /\ mstage = "off"

ManInit ==
    /\ \E n \in 2..MaxBits : mbits \in BitSeqs(n)
    /\ \E t \in TokenSamples : mlong = t[1] /\ mshort = t[2]
    /\ menc = <<>>
    /\ mpos = 0
    /\ mdec = NoDecoder
    /\ mrejected = FALSE
    /\ mstage = "input"

\* encoder.init, addData, get_encoded; the decoder seeded with the first bit
ManEncode ==
    /\ mstage = "input"
    /\ menc' = Get_encoded(AddData(mbits, <<mlong>>, <<mshort>>))
    /\ mdec' = DecodeInit(mbits[1], TRUE)
    /\ mpos' = 1
    /\ mstage' = "feeding"
    /\ UNCHANGED <<mbits, mlong, mshort, mrejected, notMan>>

ManFeedShort ==
    /\ mstage = "feeding"
    /\ mpos <= Len(menc)
    /\ menc[mpos] = mshort
    /\ mdec' = AddShortPulse(mdec)
    /\ mpos' = mpos + 1
    /\ UNCHANGED <<mbits, mlong, mshort, menc, mrejected, mstage, notMan>>

ManFeedLong ==
    /\ mstage = "feeding"
    /\ mpos <= Len(menc)
    /\ menc[mpos] = mlong
    /\ mdec' = AddLongPulse(mdec)
    /\ mrejected' = (mrejected \/ ~AddLongPulseAccepts(mdec))
    /\ mpos' = mpos + 1
    /\ UNCHANGED <<mbits, mlong, mshort, menc, mstage, notMan>>

\* a token that is neither the Long nor the Short one is no Manchester pulse
ManFeedOther ==
    /\ mstage = "feeding"
    /\ mpos <= Len(menc)
    /\ menc[mpos] \notin {mlong, mshort}
    /\ mpos' = mpos + 1
    /\ UNCHANGED <<mbits, mlong, mshort, menc, mdec, mrejected, mstage, notMan>>

ManFinish ==
    /\ mstage = "feeding"
    /\ mpos > Len(menc)
    /\ mstage' = "done"
    /\ UNCHANGED <<mbits, mlong, mshort, menc, mpos, mdec, mrejected, notMan>>

(***************************************************************************)
(* init: __parge_B1.  The capture gives the bucket durations and a string *)
(* of plen digits, each the index of a bucket; the digits are consumed    *)
(* one per pass of the loop at line 263.                                  *)
(***************************************************************************)
ST_UNKNOWN == 0
ST_HW_SYNC1 == 1
ST_HW_SYNC2 == 2
ST_HW_SYNC3 == 3
ST_HW_SYNC4 == 4
ST_SW_SYNC1 == 5
ST_SW_SYNC2 == 6
ST_PAYLOAD == 7
ST_DONE == 8

MaxPulses == 15

\* lines 239-248 with if/elif: the first matching range decides
Classify_FirstMatch(iValue) ==
    IF iValue > 448 /\ iValue < 832 THEN "Short"
    ELSE IF iValue > 896 /\ iValue < 1664 THEN "Long"
    ELSE IF iValue > 1792 /\ iValue < 3328 THEN "HWsync"
    ELSE IF iValue > 3136 /\ iValue < 5824 THEN "SWsync"
    ELSE IF iValue > 25000 THEN "InterFrameGap"
    ELSE "none"

\* lines 239-248: five independent ifs, each overwriting pulse[i]; "none"
\* stands for no entry in the dict
Classify(iValue) ==
    LET r1 == IF iValue > 448 /\ iValue < 832 THEN "Short" ELSE "none"
        r2 == IF iValue > 896 /\ iValue < 1664 THEN "Long" ELSE r1
        r3 == IF iValue > 1792 /\ iValue < 3328 THEN "HWsync" ELSE r2
        r4 == IF iValue > 3136 /\ iValue < 5824 THEN "SWsync" ELSE r3
        r5 == IF iValue > 25000 THEN "InterFrameGap" ELSE r4
    IN r5

\* the bucket indices of a table of n buckets
BucketIndices(buckets) == 0..(Len(buckets) - 1)

\* lines 267-269 with the reset one step late
HWsyncStep_FifthStep(state) ==
    IF state + 1 > ST_SW_SYNC1 THEN ST_UNKNOWN ELSE state + 1

\* lines 267-269: state = state + 1, back to ST_UNKNOWN past ST_HW_SYNC4
HWsyncStep(state) ==
    IF state + 1 > ST_HW_SYNC4 THEN ST_UNKNOWN ELSE state + 1

\* a SWsync pulse taken in any of the hardware-sync states
SWsyncAccepted_AnyHwSync(state) == state >= ST_HW_SYNC1 /\ state <= ST_HW_SYNC4

\* line 271: the state in which a SWsync pulse is taken
SWsyncAccepted(state) == state = ST_HW_SYNC4

\* one pass of the loop at lines 263-296 for a pulse with a role: the new
\* state and decoder
SyncStep(state, dec, role) ==
    IF role = "HWsync"
    THEN [state |-> HWsyncStep(state), dec |-> dec]
    ELSE IF role = "SWsync" /\ SWsyncAccepted(state)
    THEN [state |-> ST_SW_SYNC2, dec |-> dec]
    ELSE IF role = "Long" /\ state = ST_SW_SYNC2
    THEN [state |-> ST_PAYLOAD, dec |-> Decode_init(dec, 1, TRUE)]
    ELSE IF role = "Short" /\ state = ST_SW_SYNC2
    THEN [state |-> ST_PAYLOAD, dec |-> Decode_init(dec, 0, FALSE)]
    ELSE IF state = ST_PAYLOAD
    THEN IF role = "Short"
         THEN [state |-> state, dec |-> AddShortPulse(dec)]
         ELSE IF role = "Long"
         THEN [state |-> IF AddLongPulseAccepts(dec) THEN state ELSE ST_UNKNOWN,
               dec |-> AddLongPulse(dec)]
         ELSE IF role = "InterFrameGap"
         THEN [state |-> ST_DONE,
               dec |-> IF dec.count = 55
                       THEN [dec EXCEPT !.bitvec = Append(@, dec.nextBit)]
                       ELSE dec]
         ELSE [state |-> ST_UNKNOWN, dec |-> dec]
    ELSE [state |-> ST_UNKNOWN, dec |-> dec]

\* bit j (1 = most significant) of the low 56 bits of int(bitvec, base=2)
NumberBit(bitvec, j) ==
    LET k == j + Len(bitvec) - 56
    IN IF k >= 1 THEN bitvec[k] ELSE 0

\* lines 302-309: frame[i] = (number >> (48 - 8 i)) & 0xff
FrameOfNumber(bitvec) ==
    [i \in 0..6 |->
        128 * NumberBit(bitvec, 8 * i + 1) + 64 * NumberBit(bitvec, 8 * i + 2)
        + 32 * NumberBit(bitvec, 8 * i + 3) + 16 * NumberBit(bitvec, 8 * i + 4)
        + 8 * NumberBit(bitvec, 8 * i + 5) + 4 * NumberBit(bitvec, 8 * i + 6)
        + 2 * NumberBit(bitvec, 8 * i + 7) + NumberBit(bitvec, 8 * i + 8)]

\* lines 301-317: the rolling code and device of the YfmosConfig returned
DecodedFields(bitvec) ==
    LET frame == Deobfuscate(FrameOfNumber(bitvec))
    IN [rollingCode |-> BitOr(frame[2] * 256, frame[3]),
        device |-> BitOr(BitOr(frame[4] * 65536, frame[5] * 256), frame[6])]

NoFields == [rollingCode |-> -1, device |-> -1]

\* the pulses walked since the pulse that entered ST_PAYLOAD, that one
\* included; empty outside ST_PAYLOAD and ST_DONE
FrameSoFar(frame, state, nextState, role) ==
    IF state = ST_SW_SYNC2 /\ nextState = ST_PAYLOAD THEN <<role>>
    ELSE IF state = ST_PAYLOAD /\ nextState \in {ST_PAYLOAD, ST_DONE}
    THEN Append(frame, role)
    ELSE <<>>

\* lines 284-286: a Long pulse in ST_PAYLOAD for which addLongPulse returns
\* False
Desync(state, dec, role) ==
    state = ST_PAYLOAD /\ role = "Long" /\ ~dec.secondPulse

\* the number of HWsync pulses in a row since the state was last ST_UNKNOWN
\* after another pulse (or at the start); -1 when the pulses since then are
\* not all HWsync
RunOfHWsync(run, nextState, role) ==
    IF role = "HWsync" /\ run >= 0 THEN run + 1
    ELSE IF nextState = ST_UNKNOWN THEN 0
    ELSE -1

\* lines 227-262: the buckets classified; with --debug the print at line 250
\* raises KeyError at the first bucket without a role
ParseBuckets(debug) ==
    /\ pstage = "start"
    /\ LET unknown == {i \in BucketIndices(pbuckets) : Classify(pbuckets[i + 1]) = "none"}
           stop == IF debug /\ unknown # {}
                   THEN CHOOSE i \in unknown : \A j \in unknown : i <= j
                   ELSE Len(pbuckets)
       IN /\ pulse' = [i \in BucketIndices(pbuckets) |->
                        IF i <= stop THEN Classify(pbuckets[i + 1]) ELSE "none"]
          /\ pstage' = IF debug /\ unknown # {} THEN "KeyErrorBucket" ELSE "walking"
    /\ UNCHANGED <<pbuckets, pstate, pdec, ppos, plen, plast, presult, everDone,
                   doneBits, pdata, pframe, pdesync, hwRun, notParse>>

\* one pass of the loop at lines 263-296, for the digit k; a bucket without a
\* role raises KeyError at line 266
ParsePulse(k) ==
    /\ pstage = "walking"
    /\ k \in BucketIndices(pbuckets)
    /\ ppos < plen
    /\ ppos' = ppos + 1
    /\ plast' = pulse[k]
    /\ IF pulse[k] = "none"
       THEN /\ pstage' = "KeyErrorPulse"
            /\ UNCHANGED <<pstate, pdec, everDone, doneBits, pframe, pdesync, hwRun>>
       ELSE LET next == SyncStep(pstate, pdec, pulse[k])
            IN /\ pstate' = next.state
               /\ pdec' = next.dec
               /\ everDone' = (everDone \/ next.state = ST_DONE)
               /\ doneBits' = IF ~everDone /\ next.state = ST_DONE
                              THEN next.dec.bitvec ELSE doneBits
               /\ pframe' = FrameSoFar(pframe, pstate, next.state, pulse[k])
               /\ pdesync' = (pdesync \/ Desync(pstate, pdec, pulse[k]))
               /\ hwRun' = RunOfHWsync(hwRun, next.state, pulse[k])
               /\ pstage' = pstage
    /\ UNCHANGED <<pbuckets, pulse, plen, presult, pdata, notParse>>

\* lines 298-317, after the last digit: decode.get_bitvector() raises
\* AttributeError when init was never called and ValueError on an empty
\* bitvec; otherwise the fields are returned
ParseFinish ==
    /\ pstage = "walking"
    /\ ppos = plen
    /\ IF ~pdec.ready
       THEN pstage' = "AttributeError" /\ presult' = presult
       ELSE IF pdec.bitvec = <<>>
       THEN pstage' = "ValueError" /\ presult' = presult
       ELSE pstage' = "returned" /\ presult' = DecodedFields(pdec.bitvec)
    /\ UNCHANGED <<pbuckets, pulse, pstate, pdec, ppos, plen, plast, everDone,
                   doneBits, pdata, pframe, pdesync, hwRun, notParse>>

ParseIdle ==
    /\ pbuckets = <<>>
    /\ pulse = <<>>
    /\ pstate = ST_UNKNOWN
    /\ pdec = NoDecoder
    /\ ppos = 0
    /\ plen = 0
    /\ plast = "none"
    /\ pstage = "off"
    /\ presult = NoFields
    /\ everDone = FALSE
    /\ doneBits = <<>>
    /\ pdata = <<>>
    /\ pframe = <<>>
    /\ pdesync = FALSE
    /\ hwRun = 0

\* a capture: its bucket table and the number of digits of its data string
ParseInit(tables, lengths) ==
    /\ pbuckets \in tables
    /\ plen \in lengths
    /\ pulse = <<>>
    /\ pstate = ST_UNKNOWN
    /\ pdec = NoDecoder
    /\ ppos = 0
    /\ plast = "none"
    /\ pstage = "start"
    /\ presult = NoFields
    /\ everDone = FALSE
    /\ doneBits = <<>>
    /\ pdata = <<>>
    /\ pframe = <<>>
    /\ pdesync = FALSE
    /\ hwRun = 0

\* bucket tables of captures: the default one, one whose buckets came in
\* another order, one with a sixth bucket that has no role
CaptureTables ==
    {DefaultBuckets, <<27360, 650, 1270, 4810, 2530>>, Append(DefaultBuckets, 200)}

\* durations at and around the limits of the ranges
DurationSamples ==
    {0, 448, 449, 640, 831, 832, 896, 897, 1280, 1663, 1664, 1792, 1793, 2560,
     3136, 3137, 3327, 3328, 4480, 5823, 5824, 25000, 25001}

SampleTables == {Append(DefaultBuckets, d) : d \in DurationSamples}

MaxSamplePulses == 1

\* the digits a data string is made of here
DigitSamples == 0..5

\* the last field of tmpStr: hwSync * 14, swSync, longPulse, dataStr and '4',
\* the pulse indices of the command
EmittedPulses(b0) == b0.tmpStr[Len(b0.tmpStr)]

\* the command of invocation p sent and captured: __parge_B1 is given the
\* profile's bucket table and the pulse indices of the command
Capture(p) ==
    /\ inv[p].pc = "built"
    /\ pstage = "off"
    /\ pbuckets' = inv[p].cfg.Buckets
    /\ pdata' = EmittedPulses(inv[p].b0)
    /\ plen' = Len(EmittedPulses(inv[p].b0))
    /\ pstage' = "start"
    /\ UNCHANGED <<pulse, pstate, pdec, ppos, plast, presult, everDone, doneBits,
                   pframe, pdesync, hwRun, notParse>>

\* one pass of the loop at lines 263-296 on a capture given whole: the digit
\* is the next one of the data string
WalkCapture(k) ==
    /\ pstage = "walking"
    /\ ppos < plen
    /\ k = pdata[ppos + 1]
    /\ ParsePulse(k)

ParseNext ==
    \/ \E debug \in BOOLEAN : ParseBuckets(debug)
    \/ \E k \in DigitSamples : ParsePulse(k)
    \/ ParseFinish

(***************************************************************************)
(* Specifications                                                         *)
(***************************************************************************)
\* the frame codec on any 7-byte frame
CodecSpecInit == CodecInit /\ GenIdle /\ ManIdle /\ ParseIdle

CodecNext == DoObfuscate \/ DoDeobfuscate

SpecCodec == CodecSpecInit /\ [][CodecNext]_vars

\* gen/run invocations run one after the other
SeqInit == GenInit /\ serial = TRUE /\ CodecIdle /\ ManIdle /\ ParseIdle

SpecSeq == SeqInit /\ [][GenStep]_vars

\* gen/run invocations running at the same time on one profile
ConcInit ==
    /\ rc0 \in RollingCodeSamples
    /\ \E host \in {"none", "bridge"} : store = DefaultProfile(TRUE, rc0, 12648430, host)
    /\ inv = [p \in Procs |-> IdleInvocation]
    /\ log = <<>>
    /\ serial = FALSE
    /\ CodecIdle
    /\ ManIdle
    /\ ParseIdle

SpecConc == ConcInit /\ [][GenStep]_vars

\* the Manchester encoder against the decoder
ManSpecInit == ManInit /\ CodecIdle /\ GenIdle /\ ParseIdle

ManNext == ManEncode \/ ManFeedShort \/ ManFeedLong \/ ManFeedOther \/ ManFinish

SpecManchester == ManSpecInit /\ [][ManNext]_vars

\* init on a capture of up to MaxPulses pulses
ParseSpecInit ==
    ParseInit(CaptureTables, 0..MaxPulses) /\ CodecIdle /\ GenIdle /\ ManIdle

SpecParse == ParseSpecInit /\ [][ParseNext]_vars

\* init on short captures whose sixth bucket has a duration around the limits
ClassifySpecInit ==
    ParseInit(SampleTables, 0..MaxSamplePulses) /\ CodecIdle /\ GenIdle /\ ManIdle

SpecClassify == ClassifySpecInit /\ [][ParseNext]_vars

\* gen on a default profile, its command captured and given to init
LoopInit ==
    /\ rc0 \in RollingCodeSamples
    /\ \E device \in DeviceSamples : store = DefaultProfile(TRUE, rc0, device, "none")
    /\ inv = [p \in Procs |-> IdleInvocation]
    /\ log = <<>>
    /\ serial = TRUE
    /\ CodecIdle
    /\ ManIdle
    /\ ParseIdle

LoopNext ==
    \/ \E args \in ArgSamples : GenRead(1, args)
    \/ Capture(1)
    \/ \E debug \in BOOLEAN : ParseBuckets(debug)
    \/ \E k \in DigitSamples : WalkCapture(k)
    \/ ParseFinish

SpecLoop == LoopInit /\ [][LoopNext]_vars

(***************************************************************************)
(* Properties                                                             *)
(***************************************************************************)
\* the successful invocations, in the order they finished
OkLog == SelectSeq(log, LAMBDA e : e.ok)

\* XOR over the seven bytes of byte XOR (byte >> 4), masked to the low nibble
NibbleTerm(frame, i) == Xor(frame[i], frame[i] \div 16)

NibbleFold(frame) ==
    Xor(NibbleTerm(frame, 0), Xor(NibbleTerm(frame, 1), Xor(NibbleTerm(frame, 2),
        Xor(NibbleTerm(frame, 3), Xor(NibbleTerm(frame, 4),
            Xor(NibbleTerm(frame, 5), NibbleTerm(frame, 6))))))) % 16

\* C1: for every 7-byte frame, __obfuscate followed by __deobfuscate gives
\* back the frame, equal in all seven bytes.
C1_RoundTrip == cstage = "deobfuscated" => cde = cin

\* C2 (as claimed): the rolling code in bytes 2-3 of each frame of a successful
\* invocation is one greater than that of the previous successful invocation
\* (than the initially stored RollingCode for the first), and the RollingCode
\* stored afterwards equals the code in the frame.
C2_StrictIncrement ==
    \A i \in 1..Len(OkLog) :
        /\ OkLog[i].code = (IF i = 1 THEN rc0 ELSE OkLog[i - 1].code) + 1
        /\ OkLog[i].after = OkLog[i].code

\* C2 (amended): the stored RollingCode grows by exactly one with every
\* successful invocation, the frame carries the low 16 bits of the value stored
\* by its invocation, and so the code of each frame is the code of the previous
\* frame plus one modulo 2^16.
C2_IncrementModulo ==
    /\ \A i \in 1..Len(OkLog) :
        /\ OkLog[i].after = (IF i = 1 THEN rc0 ELSE OkLog[i - 1].after) + 1
        /\ OkLog[i].code = OkLog[i].after % 65536
        /\ OkLog[i].code =
            ((IF i = 1 THEN rc0 % 65536 ELSE OkLog[i - 1].code) + 1) % 65536
    /\ store.RollingCode = (IF OkLog = <<>> THEN rc0 ELSE OkLog[Len(OkLog)].after)

\* three successful invocations in a row, the second one wrapping the 16-bit code
C2_Witness ==
    /\ Len(OkLog) = 3
    /\ OkLog[1].code = 65535
    /\ OkLog[2].code = 0
    /\ store.RollingCode = 65537

\* C3: whatever the interleaving of two invocations on one profile, their two
\* frames carry different rolling codes and the stored RollingCode ends at the
\* initial value plus 2.
C3_Serialized ==
    (Len(log) = 2 /\ Len(OkLog) = 2 /\ InProgress = {}) =>
        /\ OkLog[1].code # OkLog[2].code
        /\ store.RollingCode = rc0 + 2

\* C4: when the callback invoked by __gen_B0 returns, the stored RollingCode
\* already equals the rolling code of the frame passed to the callback.
C4_PersistedBeforeReturn ==
    \A p \in Procs :
        inv[p].pc = "returned" => store.RollingCode = FrameCode(inv[p].payload)

\* C7 (as claimed): the checksum fold recomputed over the completed,
\* unobfuscated frame yields the value stored in the low nibble of byte 1.
C7_FoldOfCompletedFrame ==
    \A p \in InProgress :
        NibbleFold(inv[p].payload) = inv[p].payload[1] % 16

\* C7 (amended): the checksum fold recomputed over the completed, unobfuscated
\* frame with the low nibble of byte 1 cleared (as it was when __calc_checksum
\* ran) yields the value stored in the low nibble of byte 1.
C7_FoldWithNibbleCleared ==
    \A p \in InProgress :
        LET frame == inv[p].payload
            cleared == [frame EXCEPT ![1] = (frame[1] \div 16) * 16]
        IN NibbleFold(cleared) = frame[1] % 16

\* a built frame whose checksum nibble is not zero
C7_Witness ==
    \E p \in InProgress :
        /\ inv[p].payload[1] % 16 # 0
        /\ inv[p].payload[1] \div 16 = Commands[inv[p].cmd] \div 16

\* C9: the length byte of the generated command times 2 equals the number of
\* hex digits of the body between the length byte and the trailing 55.
C9_LengthCountsBody ==
    \A p \in InProgress :
        inv[p].b0.strLen * 2 = Len(NoSpaces(inv[p].b0.tmpStr))

\* the roles and their ranges as the specification states them
RoleRanges ==
    [Short |-> [lo |-> 448, hi |-> 832],
     Long |-> [lo |-> 896, hi |-> 1664],
     HWsync |-> [lo |-> 1792, hi |-> 3328],
     SWsync |-> [lo |-> 3136, hi |-> 5824]]

Matches(d) ==
    {r \in DOMAIN RoleRanges : RoleRanges[r].lo < d /\ d < RoleRanges[r].hi}
    \cup (IF d > 25000 THEN {"InterFrameGap"} ELSE {})

\* the parser has classified the buckets without failing
Classified == pstage \notin {"off", "start", "KeyErrorBucket"}

\* C5: a capture whose pulses never drive the sync state machine into Done
\* ends in a failure; no device id and no rolling code are returned.
C5_NoFrameFound ==
    ~everDone => (pstage # "returned" /\ presult = NoFields)

\* C6: a bit sequence of length >= 2 encoded by ManchesterEncode (the output
\* ending with one extra short pulse) and fed to a ManchesterDecode seeded with
\* init(b[0], True) never makes addLongPulse return False and leaves bitvec
\* equal to the sequence.
C6_ManchesterRoundTrip ==
    (mstage = "done" /\ menc[Len(menc)] = mshort) =>
        /\ ~mrejected
        /\ mdec.bitvec = mbits
        /\ mdec.count = Len(mbits)

\* a sequence of the largest length with equal and with differing neighbours,
\* decoded to the end
C6_Witness ==
    /\ mstage = "done"
    /\ mshort = 3
    /\ Len(mbits) = MaxBits
    /\ \E i \in 1..(Len(mbits) - 1) : mbits[i] = mbits[i + 1]
    /\ \E i \in 1..(Len(mbits) - 1) : mbits[i] # mbits[i + 1]
    /\ mdec.bitvec = mbits

C10_DoneIsFinal ==
    /\ (everDone /\ pstage = "walking") => pstate = ST_DONE
    /\ (everDone /\ pstage = "returned") => presult = DecodedFields(doneBits)

\* a walk has consumed one more pulse that has a role
Walked == ppos' = ppos + 1 /\ pstage' = "walking"

\* C11: whenever the state machine is in Done the decoder holds exactly 56
\* bits, and a frame is returned after Done only from 56 bits; an
\* InterFrameGap in Payload at another bit count yields no decoded frame.
C11_DoneHas56Bits ==
    /\ pstate = ST_DONE => Len(pdec.bitvec) = 56
    /\ (everDone /\ pstage = "returned") => Len(doneBits) = 56

\* C12: Payload is entered only by a Long or Short pulse in ST_SW_SYNC2,
\* ST_SW_SYNC2 only by a SWsync pulse in ST_HW_SYNC4, each hardware-sync state
\* only by a HWsync pulse in the state before it, and a SWsync pulse in any
\* state but ST_HW_SYNC4 sets the state to ST_UNKNOWN; so HWsync pulses ending
\* in ST_HW_SYNC4, one SWsync and one Long or Short pulse precede every entry.
C12_PayloadEntry ==
    [][Walked =>
        /\ (pstate' = ST_PAYLOAD /\ pstate # ST_PAYLOAD) =>
                (pstate = ST_SW_SYNC2 /\ plast' \in {"Long", "Short"})
        /\ pstate' = ST_SW_SYNC2 => (pstate = ST_HW_SYNC4 /\ plast' = "SWsync")
        /\ pstate' # ST_SW_SYNC1
        /\ \A n \in ST_HW_SYNC1..ST_HW_SYNC4 :
                pstate' = n => (pstate = n - 1 /\ plast' = "HWsync")
        /\ (plast' = "SWsync" /\ pstate # ST_HW_SYNC4) => pstate' = ST_UNKNOWN
        /\ (plast' = "SWsync" /\ pstate = ST_HW_SYNC4) => pstate' = ST_SW_SYNC2
    ]_vars

\* Payload entered by a Short pulse, the sixth pulse of the capture
C12_Witness ==
    /\ pstate = ST_PAYLOAD
    /\ pframe = <<"Short">>
    /\ ppos = 6
    /\ hwRun = -1

\* the pulses of frame walked from ST_SW_SYNC2 by a decoder that has decoded
\* nothing before
RECURSIVE ReplayLoop(_, _, _)
ReplayLoop(frame, i, cur) ==
    IF i > Len(frame) THEN cur
    ELSE ReplayLoop(frame, i + 1, SyncStep(cur.state, cur.dec, frame[i]))

Replay(frame) == ReplayLoop(frame, 1, [state |-> ST_SW_SYNC2, dec |-> NoDecoder])

\* C13: a desync (addLongPulse returning False in Payload) leaves the state
\* machine in ST_UNKNOWN, and whenever it is in Payload or Done afterwards the
\* decoder (bits, count, expected bit, awaiting flag) is what a decoder that
\* never saw the aborted attempt makes of the pulses since Payload was entered.
C13_FreshAfterDesync ==
    [][Walked =>
        /\ Desync(pstate, pdec, plast') => (pstate' = ST_UNKNOWN /\ pdesync')
        /\ (pdesync' /\ pstate' \in {ST_PAYLOAD, ST_DONE}) =>
                /\ Replay(pframe').state = pstate'
                /\ Replay(pframe').dec = pdec'
    ]_vars

\* an attempt that decoded a bit and lost sync, then a repetition walked to
\* Done with nothing but its own bits
C13_Witness ==
    /\ pdesync
    /\ pstate = ST_DONE
    /\ ppos = 15
    /\ pframe = <<"Long", "InterFrameGap">>
    /\ pdec.bitvec = <<>>

\* C14: a HWsync pulse advances the state by one from ST_UNKNOWN, ST_HW_SYNC1,
\* ST_HW_SYNC2 and ST_HW_SYNC3 and sets it to ST_UNKNOWN from every other
\* state; a run of k HWsync pulses from ST_UNKNOWN ends in the state k mod 5,
\* in ST_HW_SYNC4 only when k mod 5 = 4.
C14_HWsyncStep ==
    [][Walked =>
        /\ plast' = "HWsync" =>
                pstate' = (IF pstate \in {ST_UNKNOWN, ST_HW_SYNC1, ST_HW_SYNC2, ST_HW_SYNC3}
                           THEN pstate + 1 ELSE ST_UNKNOWN)
        /\ hwRun' >= 0 => pstate' = hwRun' % 5
        /\ (hwRun' >= 0 /\ pstate' = ST_HW_SYNC4) => hwRun' % 5 = 4
    ]_vars

\* fourteen HWsync pulses in a row after one other pulse
C14_Witness ==
    /\ hwRun = 14
    /\ pstate = ST_HW_SYNC4
    /\ ppos = 15

\* C15: a Long pulse in Payload while the decoder is not awaiting a second
\* half leaves nextBit, secondPulse, count and bitvec unchanged and moves the
\* state machine to ST_UNKNOWN; while awaiting, it appends nextBit, flips
\* nextBit, adds one to count, leaves the awaiting flag set and the state
\* machine in Payload.
C15_AddLongPulse ==
    [][(Walked /\ pstate = ST_PAYLOAD /\ plast' = "Long") =>
        IF ~pdec.secondPulse
        THEN pdec' = pdec /\ pstate' = ST_UNKNOWN
        ELSE /\ pdec'.bitvec = Append(pdec.bitvec, pdec.nextBit)
             /\ pdec'.nextBit = 1 - pdec.nextBit
             /\ pdec'.count = pdec.count + 1
             /\ pdec'.secondPulse
             /\ pdec'.ready
             /\ pstate' = ST_PAYLOAD
    ]_vars

\* a Long pulse refused in one attempt and, in the next, a Long pulse taken
\* as the second bit
C15_Witness ==
    /\ pdesync
    /\ pstate = ST_PAYLOAD
    /\ plast = "Long"
    /\ pdec.bitvec = <<1>>
    /\ pdec.nextBit = 0

\* C17: an invocation that fails (profile section missing, or the callback
\* raising) leaves the stored RollingCode as it was, and the invocation that
\* follows a failed one puts the same rolling code in its frame.
C17_FailureKeepsCode ==
    [][/\ (\E p \in Procs : inv[p].pc # "failed" /\ inv'[p].pc = "failed") =>
                store'.RollingCode = store.RollingCode
       /\ \A i \in 1..Len(log') :
            (~log'[i].ok /\ log'[i].code # -1) =>
                IF i < Len(log')
                THEN log'[i + 1].code = log'[i].code
                ELSE /\ store'.RollingCode = log'[i].before
                     /\ \A p \in Procs :
                            inv'[p].pc \in {"built", "returned"} =>
                                FrameCode(inv'[p].payload) = log'[i].code
    ]_vars

\* a run refused by the bridge, then a run that succeeds with the same
\* rolling code in its frame
C17_Witness ==
    /\ Len(log) = 2
    /\ ~log[1].ok
    /\ log[1].error = "Status"
    /\ log[2].ok
    /\ log[2].code = log[1].code
    /\ store.RollingCode = rc0 + 1

\* C18: run fails with 'Host not set' only when neither --host nor the
\* profile's Host field supplies a host: with a Host stored in the profile no
\* invocation ends in that error.
C18_HostFromProfile ==
    \A i \in 1..Len(log) : log[i].error = "HostNotSet" => store.Host = "none"

\* XOR of the fourteen nibbles of a frame
AllNibblesXor(frame) ==
    LET n(i) == Xor(frame[i] \div 16, frame[i] % 16)
    IN Xor(n(0), Xor(n(1), Xor(n(2), Xor(n(3), Xor(n(4), Xor(n(5), n(6)))))))

\* C19: the completed, unobfuscated frame has the high nibble of the command
\* code in the high nibble of byte 1, the XOR of its fourteen nibbles is 0,
\* and __calc_checksum applied to it again leaves it unchanged.
C19_ChecksumClosed ==
    \A p \in InProgress :
        /\ inv[p].payload[1] \div 16 = Commands[inv[p].cmd] \div 16
        /\ AllNibblesXor(inv[p].payload) = 0
        /\ Calc_checksum(inv[p].payload) = inv[p].payload

\* a PROG frame with the largest rolling code and a checksum nibble that is
\* not zero
C19_Witness ==
    \E p \in InProgress :
        /\ inv[p].cmd = "PROG"
        /\ FrameCode(inv[p].payload) = 65535
        /\ inv[p].payload[1] % 16 # 0

\* C16: the pulse indices gen emits on a profile with the default bucket
\* indices (HWsync x14, SWsync, Long, the Manchester payload, 3, 4), walked by
\* __parge_B1, end in Done with exactly 56 bits, and the rolling code and the
\* device id returned are the ones of the frame gen built.
C16_EndToEnd ==
    /\ pstage \notin {"KeyErrorBucket", "KeyErrorPulse", "AttributeError", "ValueError"}
    /\ (pstage \in {"walking", "returned"} /\ ppos = plen) =>
            /\ pstate = ST_DONE
            /\ Len(pdec.bitvec) = 56
            /\ pdec.bitvec = To_bitvec(Obfuscate(inv[1].payload))
    /\ pstage = "returned" =>
            /\ presult.rollingCode = FrameCode(inv[1].payload)
            /\ presult.rollingCode = inv[1].rollingCode % 65536
            /\ presult.device = inv[1].cfg.Device

\* a DOWN frame with rolling code 65535 for device 0x123456, emitted, walked
\* to the end and returned
C16_Witness ==
    /\ pstage = "returned"
    /\ inv[1].cmd = "DOWN"
    /\ presult = [rollingCode |-> 65535, device |-> 1193046]
    /\ hwRun = -1
    /\ ~pdesync

====
